---- MODULE Spec2Model ----
(***************************************************************************)
(* riegeli chunk_encoding: CompressorOptions (compressor_options.h) and    *)
(* the frozen format enumerations (types.h).                               *)
(*                                                                         *)
(* The state is one CompressorOptions object together with a record of the *)
(* last call made on it.                                                   *)
(*                                                                         *)
(* RIEGELI_ASSERT comes from riegeli/base/base.h and is verified only in   *)
(* some builds.  `riegeli_debug` is the build: when TRUE a failed          *)
(* RIEGELI_ASSERT terminates the process (`aborted` becomes TRUE and       *)
(* nothing further happens); when FALSE the assertion is not evaluated and *)
(* the call goes on to its assignments.  `failed` records that some call   *)
(* was made with its precondition false, in either build.                  *)
(*                                                                         *)
(* Strings are TLA+ strings; Len, SubSeq and \o act on their characters.   *)
(* absl::optional<int> is a sequence of length at most one: <<>> is        *)
(* absl::nullopt and <<v>> holds v.                                        *)
(***************************************************************************)
EXTENDS Integers, Sequences, FiniteSets, TLC

VARIABLES compression_type_, compression_level_, window_log_,
          riegeli_debug, failed, aborted, op, arg, text, status, ret

vars == <<compression_type_, compression_level_, window_log_,
          riegeli_debug, failed, aborted, op, arg, text, status, ret>>

fields == <<compression_type_, compression_level_, window_log_>>

(***************************************************************************)
(* Bound of the model: the largest number of comma-separated segments of   *)
(* an option string handed to FromString.                                  *)
(***************************************************************************)
MaxSegments == 3

(***************************************************************************)
(* types.h: the enumerations frozen in the file format, each enumerator    *)
(* with its uint8_t code ('s' = 115, 'p' = 112, 'r' = 114, 't' = 116,      *)
(* 'b' = 98, 'z' = 122).                                                   *)
(***************************************************************************)
ChunkType ==
    [kFileSignature |-> 115, kPadding |-> 112, kSimple |-> 114, kTransposed |-> 116]

CompressionType ==
    [kNone |-> 0, kBrotli |-> 98, kZstd |-> 122]

(***************************************************************************)
(* The enumerators compressor_options.h assigns to compression_type_.      *)
(* kSnappy is used by set_snappy() although types.h does not declare it.   *)
(***************************************************************************)
CompressionTypeNames == {"kNone", "kBrotli", "kZstd", "kSnappy"}

(***************************************************************************)
(* Constants of compressor_options.h.  The Brotli and Zstd writer options  *)
(* they are taken from are documented next to them: Brotli levels 0..11    *)
(* (default 6), Zstd levels -131072..22 (default 3), Brotli window log     *)
(* 10..30 (default 22), Zstd window log 10..31 (64-bit build).             *)
(***************************************************************************)
kMinBrotli == 0
\* Faulty variant of kMaxBrotli: the maximum one too large.
kMaxBrotli_off_by_one == 11 + 1
kMaxBrotli == 11
\* Faulty variant of kDefaultBrotli: a different default level.
kDefaultBrotli_wrong == 6 - 1
kDefaultBrotli == 6
kMinZstd == -131072
kMaxZstd == 22
kDefaultZstd == 3
BrotliMinWindowLog == 10
BrotliMaxWindowLog == 30
BrotliDefaultWindowLog == 22
ZstdMinWindowLog == 10
ZstdMaxWindowLog == 31

SignedMin(a, b) == IF a < b THEN a ELSE b
SignedMax(a, b) == IF a > b THEN a ELSE b

kMinWindowLog == SignedMin(BrotliMinWindowLog, ZstdMinWindowLog)
kMaxWindowLog == SignedMax(BrotliMaxWindowLog, ZstdMaxWindowLog)

nullopt == <<>>
Some(v) == <<v>>

(***************************************************************************)
(* The object as a value, and the default-constructed object.              *)
(***************************************************************************)
This ==
    [compression_type_ |-> compression_type_,
     compression_level_ |-> compression_level_,
     window_log_ |-> window_log_]

DefaultOptions ==
    [compression_type_ |-> "kBrotli",
     compression_level_ |-> kDefaultBrotli,
     window_log_ |-> nullopt]

(***************************************************************************)
(* The setters: the assertions of each as a precondition, the assignments  *)
(* as a function of the object.                                            *)
(***************************************************************************)
set_uncompressed(o) ==
    [o EXCEPT !.compression_type_ = "kNone", !.compression_level_ = 0]

\* Faulty variant of set_brotli_pre: the RIEGELI_ASSERT_LE is missing.
set_brotli_pre_no_upper(compression_level) ==
    compression_level >= kMinBrotli

set_brotli_pre(compression_level) ==
    /\ compression_level >= kMinBrotli
    /\ compression_level <= kMaxBrotli

set_brotli(o, compression_level) ==
    [o EXCEPT !.compression_type_ = "kBrotli",
              !.compression_level_ = compression_level]

set_zstd_pre(compression_level) ==
    /\ compression_level >= kMinZstd
    /\ compression_level <= kMaxZstd

\* Faulty variant of set_zstd: compression_type_ is not assigned.
set_zstd_keeps_type(o, compression_level) ==
    [o EXCEPT !.compression_level_ = compression_level]

set_zstd(o, compression_level) ==
    [o EXCEPT !.compression_type_ = "kZstd",
              !.compression_level_ = compression_level]

set_snappy(o) ==
    [o EXCEPT !.compression_type_ = "kSnappy", !.compression_level_ = 0]

set_window_log_pre(window_log) ==
    window_log # nullopt =>
        /\ window_log[1] >= kMinWindowLog
        /\ window_log[1] <= kMaxWindowLog

\* Faulty variant of set_window_log: it also clears compression_level_.
set_window_log_resets_level(o, window_log) ==
    [o EXCEPT !.window_log_ = window_log, !.compression_level_ = 0]

set_window_log(o, window_log) ==
    [o EXCEPT !.window_log_ = window_log]

(***************************************************************************)
(* brotli_window_log() and zstd_window_log(): the translations for the     *)
(* writers.  Each has the documented precondition on compression_type().   *)
(* brotli_window_log() gives the writer's default for absl::nullopt and    *)
(* the stored value otherwise; zstd_window_log() gives window_log() as an  *)
(* optional.                                                               *)
(***************************************************************************)
\* Faulty variant of brotli_window_log_pre: no precondition is checked.
brotli_window_log_pre_any_type(o) == TRUE

brotli_window_log_pre(o) == o.compression_type_ = "kBrotli"

\* Faulty variant of brotli_window_log: the stored value is ignored.
brotli_window_log_ignores_stored(o) == Some(BrotliDefaultWindowLog)

brotli_window_log(o) ==
    IF o.window_log_ = nullopt
    THEN Some(BrotliDefaultWindowLog)
    ELSE Some(o.window_log_[1])

zstd_window_log_pre(o) == o.compression_type_ = "kZstd"

zstd_window_log(o) == o.window_log_

(***************************************************************************)
(* Text helpers of the option parser.                                      *)
(***************************************************************************)
Char(s, i) == SubSeq(s, i, i)

\* Index of the first occurrence of the character c in s, 0 if there is none.
Find(s, c) ==
    LET I == {i \in 1..Len(s) : Char(s, i) = c}
    IN  IF I = {} THEN 0 ELSE CHOOSE i \in I : \A j \in I : i <= j

\* s split at every comma; a string without a comma is one segment.
RECURSIVE Split(_)
Split(s) ==
    LET p == Find(s, ",")
    IN  IF p = 0
        THEN <<s>>
        ELSE <<SubSeq(s, 1, p - 1)>> \o Split(SubSeq(s, p + 1, Len(s)))

Digits == {"0", "1", "2", "3", "4", "5", "6", "7", "8", "9"}

DigitValue(c) ==
    CASE c = "0" -> 0 [] c = "1" -> 1 [] c = "2" -> 2 [] c = "3" -> 3
      [] c = "4" -> 4 [] c = "5" -> 5 [] c = "6" -> 6 [] c = "7" -> 7
      [] c = "8" -> 8 [] c = "9" -> 9

RECURSIVE Magnitude(_)
Magnitude(d) ==
    IF Len(d) = 0
    THEN 0
    ELSE Magnitude(SubSeq(d, 1, Len(d) - 1)) * 10 + DigitValue(Char(d, Len(d)))

\* A decimal integer with an optional leading minus sign; nullopt if s is
\* not one.
ParseInt(s) ==
    LET neg == Len(s) > 0 /\ Char(s, 1) = "-"
        d   == IF neg THEN SubSeq(s, 2, Len(s)) ELSE s
    IN  IF Len(d) > 0 /\ \A i \in 1..Len(d) : Char(d, i) \in Digits
        THEN Some(IF neg THEN 0 - Magnitude(d) ELSE Magnitude(d))
        ELSE nullopt

OptionKey(option) ==
    LET p == Find(option, ":")
    IN  IF p = 0 THEN option ELSE SubSeq(option, 1, p - 1)

OptionHasValue(option) == Find(option, ":") # 0

OptionValue(option) == SubSeq(option, Find(option, ":") + 1, Len(option))

(***************************************************************************)
(* The option parser.  A result is the status of the parse and the object  *)
(* as the segments applied so far left it.  Status "ok" and "error" are    *)
(* the two values of the returned absl::Status; "failed_precondition"      *)
(* stands for a setter assertion reached from the parser.                  *)
(***************************************************************************)
Ok(o) == [status |-> "ok", o |-> o, failed |-> FALSE]
Error(o) == [status |-> "error", o |-> o, failed |-> FALSE]

\* A setter reached with its precondition false: the assertion terminates
\* the process with the object o as it was, or, where assertions are not
\* verified, the setter's assignments give assigned and the parse goes on.
FailedPrecondition(o, assigned) ==
    IF riegeli_debug
    THEN [status |-> "failed_precondition", o |-> o, failed |-> TRUE]
    ELSE [status |-> "ok", o |-> assigned, failed |-> TRUE]

IntInRange(n, lo, hi) == n # nullopt /\ n[1] >= lo /\ n[1] <= hi

ApplyBrotli(o, level) ==
    IF set_brotli_pre(level)
    THEN Ok(set_brotli(o, level))
    ELSE FailedPrecondition(o, set_brotli(o, level))

ApplyZstd(o, level) ==
    IF set_zstd_pre(level)
    THEN Ok(set_zstd(o, level))
    ELSE FailedPrecondition(o, set_zstd(o, level))

ApplyWindowLog(o, window_log) ==
    IF set_window_log_pre(window_log)
    THEN Ok(set_window_log(o, window_log))
    ELSE FailedPrecondition(o, set_window_log(o, window_log))

ApplyOption(o, option) ==
    LET key   == OptionKey(option)
        has   == OptionHasValue(option)
        value == OptionValue(option)
        n     == ParseInt(value)
    IN  CASE key = "uncompressed" ->
               IF has THEN Error(o) ELSE Ok(set_uncompressed(o))
          [] key = "brotli" ->
               IF ~has THEN ApplyBrotli(o, kDefaultBrotli)
               ELSE IF IntInRange(n, kMinBrotli, kMaxBrotli)
                    THEN ApplyBrotli(o, n[1])
                    ELSE Error(o)
          [] key = "zstd" ->
               IF ~has THEN ApplyZstd(o, kDefaultZstd)
               ELSE IF IntInRange(n, kMinZstd, kMaxZstd)
                    THEN ApplyZstd(o, n[1])
                    ELSE Error(o)
          [] key = "snappy" ->
               IF has THEN Error(o) ELSE Ok(set_snappy(o))
          [] key = "window_log" ->
               IF ~has THEN Error(o)
               ELSE IF value = "auto" THEN ApplyWindowLog(o, nullopt)
               ELSE IF IntInRange(n, kMinWindowLog, kMaxWindowLog)
                    THEN ApplyWindowLog(o, n)
                    ELSE Error(o)
          [] OTHER -> Error(o)

RECURSIVE ApplyOptions(_, _)
ApplyOptions(o, options) ==
    IF options = <<>>
    THEN Ok(o)
    ELSE IF Head(options) = ""
         THEN ApplyOptions(o, Tail(options))
         ELSE LET r    == ApplyOption(o, Head(options))
                  rest == ApplyOptions(r.o, Tail(options))
              IN  IF r.status = "ok"
                  THEN [rest EXCEPT !.failed = r.failed \/ rest.failed]
                  ELSE r

FromString(o, t) == ApplyOptions(o, Split(t))

(***************************************************************************)
(* Inputs.                                                                 *)
(***************************************************************************)
LevelInputs ==
    {kMinBrotli - 1, kMinBrotli, 5, kDefaultBrotli, kMaxBrotli, kMaxBrotli + 1,
     kMinZstd - 1, kMinZstd, kDefaultZstd, kMaxZstd, kMaxZstd + 1}

WindowLogInputs ==
    {nullopt} \cup
    {Some(w) : w \in {kMinWindowLog - 1, kMinWindowLog, 15,
                      BrotliMaxWindowLog, kMaxWindowLog, kMaxWindowLog + 1}}

SegmentPool ==
    {"", "uncompressed", "snappy", "Brotli",
     "brotli", "brotli:5", "brotli:12",
     "zstd", "zstd:-131072", "zstd:-131073", "zstd:5x",
     "window_log:auto", "window_log:15", "window_log:31",
     "window_log:32", "window_log:9"}

\* The segments of a text joined by commas.
RECURSIVE Join(_)
Join(options) ==
    IF options = <<>> THEN ""
    ELSE IF Len(options) = 1 THEN Head(options)
    ELSE Head(options) \o "," \o Join(Tail(options))

\* The sequences of segments the texts handed to FromString are made of.
SegmentsOf(n) == [1..n -> SegmentPool]

(***************************************************************************)
(* The state machine.                                                      *)
(***************************************************************************)
Store(o) ==
    /\ compression_type_' = o.compression_type_
    /\ compression_level_' = o.compression_level_
    /\ window_log_' = o.window_log_

Call(name, a, t) ==
    /\ op' = name
    /\ arg' = a
    /\ text' = t
    /\ UNCHANGED riegeli_debug

\* A call whose RIEGELI_ASSERT conditions are pre and whose assignments give
\* the object assigned.
Asserting(pre, assigned) ==
    IF pre
    THEN Store(assigned) /\ UNCHANGED <<failed, aborted>>
    ELSE /\ failed' = TRUE
         /\ IF riegeli_debug
            THEN aborted' = TRUE /\ UNCHANGED fields
            ELSE Store(assigned) /\ UNCHANGED aborted

Init ==
    /\ compression_type_ = DefaultOptions.compression_type_
    /\ compression_level_ = DefaultOptions.compression_level_
    /\ window_log_ = DefaultOptions.window_log_
    /\ riegeli_debug \in BOOLEAN
    /\ failed = FALSE
    /\ aborted = FALSE
    /\ op = "CompressorOptions"
    /\ arg = <<>>
    /\ text = ""
    /\ status = "none"
    /\ ret = <<>>

SetUncompressed ==
    /\ ~aborted
    /\ Call("set_uncompressed", <<>>, "")
    /\ Store(set_uncompressed(This))
    /\ UNCHANGED <<failed, aborted>>
    /\ status' = "none" /\ ret' = <<>>

SetBrotli ==
    /\ ~aborted
    /\ \E compression_level \in LevelInputs :
         /\ Call("set_brotli", <<compression_level>>, "")
         /\ Asserting(set_brotli_pre(compression_level),
                      set_brotli(This, compression_level))
    /\ status' = "none" /\ ret' = <<>>

SetZstd ==
    /\ ~aborted
    /\ \E compression_level \in LevelInputs :
         /\ Call("set_zstd", <<compression_level>>, "")
         /\ Asserting(set_zstd_pre(compression_level),
                      set_zstd(This, compression_level))
    /\ status' = "none" /\ ret' = <<>>

SetSnappy ==
    /\ ~aborted
    /\ Call("set_snappy", <<>>, "")
    /\ Store(set_snappy(This))
    /\ UNCHANGED <<failed, aborted>>
    /\ status' = "none" /\ ret' = <<>>

SetWindowLog ==
    /\ ~aborted
    /\ \E window_log \in WindowLogInputs :
         /\ Call("set_window_log", window_log, "")
         /\ Asserting(set_window_log_pre(window_log),
                      set_window_log(This, window_log))
    /\ status' = "none" /\ ret' = <<>>

BrotliWindowLog ==
    /\ ~aborted
    /\ Call("brotli_window_log", <<>>, "")
    /\ IF brotli_window_log_pre(This)
       THEN ret' = brotli_window_log(This) /\ UNCHANGED <<failed, aborted>>
       ELSE ret' = <<>> /\ failed' = TRUE /\ aborted' = TRUE
    /\ status' = "none"
    /\ UNCHANGED fields

ZstdWindowLog ==
    /\ ~aborted
    /\ Call("zstd_window_log", <<>>, "")
    /\ IF zstd_window_log_pre(This)
       THEN ret' = zstd_window_log(This) /\ UNCHANGED <<failed, aborted>>
       ELSE ret' = <<>> /\ failed' = TRUE /\ aborted' = TRUE
    /\ status' = "none"
    /\ UNCHANGED fields

\* FromString is called on a freshly default-constructed object, the starting
\* point the parse is defined from.
ParseFromString ==
    /\ ~aborted
    /\ op = "CompressorOptions"
    /\ This = DefaultOptions
    /\ \E n \in 1..MaxSegments : \E options \in SegmentsOf(n) :
         LET t == Join(options)
             r == FromString(This, t)
         IN  /\ Call("FromString", <<>>, t)
             /\ Store(r.o)
             /\ failed' = r.failed
             /\ IF r.status = "failed_precondition"
                THEN aborted' = TRUE /\ status' = "none"
                ELSE status' = r.status /\ UNCHANGED aborted
    /\ ret' = <<>>

Next ==
    \/ SetUncompressed
    \/ SetBrotli
    \/ SetZstd
    \/ SetSnappy
    \/ SetWindowLog
    \/ BrotliWindowLog
    \/ ZstdWindowLog
    \/ ParseFromString

Spec == Init /\ [][Next]_vars

TypeOK ==
    /\ compression_type_ \in CompressionTypeNames
    /\ compression_level_ \in Int
    /\ Len(window_log_) <= 1
    /\ riegeli_debug \in BOOLEAN
    /\ failed \in BOOLEAN
    /\ aborted \in BOOLEAN
    /\ aborted => failed
    /\ status \in {"none", "ok", "error"}

(***************************************************************************)
(* Vocabulary of the properties.                                           *)
(***************************************************************************)
Setters == {"set_uncompressed", "set_brotli", "set_zstd", "set_snappy", "set_window_log"}

AlgorithmSetters == {"set_uncompressed", "set_brotli", "set_zstd", "set_snappy"}

AlgorithmKeys == {"uncompressed", "brotli", "zstd", "snappy"}

NonEmpty(options) == SelectSeq(options, LAMBDA s : s # "")

\* The option grammar of FromString, one option.
IsInteger(s) == ParseInt(s) # nullopt

GrammarOption(s) ==
    \/ s \in {"uncompressed", "snappy", "brotli", "zstd"}
    \/ /\ OptionHasValue(s)
       /\ \/ /\ OptionKey(s) = "brotli"
             /\ IsInteger(OptionValue(s))
             /\ ParseInt(OptionValue(s))[1] \in 0..11
          \/ /\ OptionKey(s) = "zstd"
             /\ IsInteger(OptionValue(s))
             /\ ParseInt(OptionValue(s))[1] \in (-131072)..22
          \/ /\ OptionKey(s) = "window_log"
             /\ \/ OptionValue(s) = "auto"
                \/ /\ IsInteger(OptionValue(s))
                   /\ ParseInt(OptionValue(s))[1] \in 10..31

ValidText(t) ==
    LET options == Split(t)
    IN  \A i \in 1..Len(options) : options[i] = "" \/ GrammarOption(options[i])

\* What the last algorithm option and the last window_log option of a valid
\* text say.
LastOf(options) == options[Len(options)]

AlgorithmOptions(t) ==
    SelectSeq(Split(t), LAMBDA s : OptionKey(s) \in AlgorithmKeys)

WindowLogOptions(t) ==
    SelectSeq(Split(t), LAMBDA s : OptionKey(s) = "window_log")

ExpectedType(t) ==
    LET options == AlgorithmOptions(t)
    IN  IF options = <<>> THEN "kBrotli"
        ELSE LET k == OptionKey(LastOf(options))
             IN  CASE k = "uncompressed" -> "kNone"
                   [] k = "brotli" -> "kBrotli"
                   [] k = "zstd" -> "kZstd"
                   [] k = "snappy" -> "kSnappy"

ExpectedLevel(t) ==
    LET options == AlgorithmOptions(t)
    IN  IF options = <<>> THEN 6
        ELSE LET s == LastOf(options)
                 k == OptionKey(s)
             IN  IF OptionHasValue(s) THEN ParseInt(OptionValue(s))[1]
                 ELSE CASE k = "brotli" -> 6 [] k = "zstd" -> 3 [] OTHER -> 0

ExpectedWindowLog(t) ==
    LET options == WindowLogOptions(t)
    IN  IF options = <<>> THEN nullopt
        ELSE LET v == OptionValue(LastOf(options))
             IN  IF v = "auto" THEN nullopt ELSE ParseInt(v)

\* The outcome of the FromString call the state records.
Outcome ==
    [status |-> IF aborted THEN "failed_precondition" ELSE status,
     o |-> This,
     failed |-> failed]

\* C1: after any sequence of setter and parser calls none of which failed a
\* precondition, compression_level lies in the range of the current
\* algorithm: 0..11 for Brotli, -131072..22 for Zstd, exactly 0 for None and
\* Snappy.
C1_LevelInRange ==
    ~failed =>
    CASE compression_type_ = "kBrotli" -> compression_level_ \in 0..11
      [] compression_type_ = "kZstd" -> compression_level_ \in (-131072)..22
      [] OTHER -> compression_level_ = 0

C1_Witness ==
    /\ op = "set_zstd" /\ ~failed /\ ~riegeli_debug
    /\ compression_type_ = "kZstd" /\ compression_level_ = -131072

\* C2: a valid option string parses successfully, and the result has the
\* algorithm and level of its last algorithm option (Brotli, 6 if none) and
\* the window_log of its last window_log option (unset if none or "auto").
C2_LastOptionWins ==
    (op = "FromString" /\ ValidText(text)) =>
        /\ ~aborted /\ ~failed
        /\ status = "ok"
        /\ compression_type_ = ExpectedType(text)
        /\ compression_level_ = ExpectedLevel(text)
        /\ window_log_ = ExpectedWindowLog(text)

C2_Witness ==
    /\ op = "FromString" /\ text = "brotli,zstd" /\ status = "ok"
    /\ compression_type_ = "kZstd" /\ compression_level_ = 3

\* C3: in every state a setter call leaves after calls that all met their
\* preconditions, an algorithm of None or Snappy has window_log unset.
C3_NoWindowLogForNoneOrSnappy ==
    (op \in Setters /\ ~failed /\ compression_type_ \in {"kNone", "kSnappy"}) =>
        window_log_ = nullopt

\* C4: an option string with a brotli level outside 0..11, a zstd level
\* outside -131072..22, or a window_log that is neither "auto" nor an integer
\* in 10..31 ends in the error status, never in a failed setter precondition.
OutOfRangeOption(s) ==
    /\ OptionHasValue(s)
    /\ \/ /\ OptionKey(s) = "brotli"
          /\ IsInteger(OptionValue(s))
          /\ ParseInt(OptionValue(s))[1] \notin 0..11
       \/ /\ OptionKey(s) = "zstd"
          /\ IsInteger(OptionValue(s))
          /\ ParseInt(OptionValue(s))[1] \notin (-131072)..22
       \/ /\ OptionKey(s) = "window_log"
          /\ OptionValue(s) # "auto"
          /\ ~(IsInteger(OptionValue(s)) /\ ParseInt(OptionValue(s))[1] \in 10..31)

C4_OutOfRangeIsRecoverable ==
    (op = "FromString" /\ LET options == Split(text)
                          IN  \E i \in 1..Len(options) : OutOfRangeOption(options[i])) =>
        status = "error" /\ ~aborted /\ ~failed

C4_Witness ==
    /\ op = "FromString" /\ text = "zstd,brotli:12" /\ status = "error" /\ ~aborted

\* C5: brotli_window_log() on an object whose algorithm is not Brotli, and
\* zstd_window_log() on one whose algorithm is not Zstd, fails its
\* precondition and returns nothing.
C5_TranslationPrecondition ==
    /\ (op = "brotli_window_log" /\ compression_type_ # "kBrotli") =>
           aborted /\ ret = <<>>
    /\ (op = "zstd_window_log" /\ compression_type_ # "kZstd") =>
           aborted /\ ret = <<>>

C5_Witness ==
    /\ op = "brotli_window_log" /\ compression_type_ = "kZstd"
    /\ window_log_ = Some(15) /\ aborted

\* C6: on a Brotli object brotli_window_log() returns 22 when window_log is
\* unset and the stored value when it is set, and changes no field.
C6_BrotliWindowLogValue ==
    /\ [](op = "brotli_window_log" /\ compression_type_ = "kBrotli" =>
            /\ ~aborted
            /\ ret = IF window_log_ = nullopt THEN Some(22) ELSE window_log_)
    /\ [][op' = "brotli_window_log" => fields' = fields]_vars

C6_Witness ==
    /\ op = "brotli_window_log" /\ compression_type_ = "kBrotli"
    /\ window_log_ = Some(15) /\ ret = Some(15)

\* C7: in every state a setter call leaves with algorithm Brotli, after calls
\* that all met their preconditions, window_log is unset or lies in Brotli's
\* own range 10..30, and brotli_window_log() never returns a value above 30.
C7_BrotliOwnRange ==
    /\ (op \in Setters /\ ~failed /\ compression_type_ = "kBrotli") =>
           (window_log_ = nullopt \/ window_log_[1] \in 10..30)
    /\ (op = "brotli_window_log" /\ ~failed) => ret[1] <= 30

\* C8: empty segments contribute nothing: a text parses to what the text
\* with its empty segments removed parses to, and the empty string parses
\* successfully to Brotli, level 6, window_log unset.
C8_EmptySegmentsSkipped ==
    /\ op = "FromString" =>
           Outcome = FromString(DefaultOptions, Join(NonEmpty(Split(text))))
    /\ (op = "FromString" /\ text = "") =>
           /\ status = "ok" /\ ~aborted /\ ~failed
           /\ compression_type_ = "kBrotli"
           /\ compression_level_ = 6
           /\ window_log_ = nullopt

C8_Witness ==
    /\ op = "FromString" /\ text = "brotli:5,,window_log:15" /\ status = "ok"
    /\ compression_level_ = 5 /\ window_log_ = Some(15)

\* C9: whatever the state of the options object, CompressionType has the enumerators None, Brotli, Zstd and Snappy and
\* ChunkType has FileSignature, Padding, Simple and Transposed; the codes of
\* each enumeration are single bytes, pairwise distinct, with None = 0,
\* Simple = 'r' (114) and Transposed = 't' (116).
DistinctBytes(e) ==
    /\ \A k \in DOMAIN e : e[k] \in 0..255
    /\ \A j, k \in DOMAIN e : j # k => e[j] # e[k]

C9_FrozenEnumerations ==
    compression_type_ \in CompressionTypeNames =>
    /\ DOMAIN CompressionType = {"kNone", "kBrotli", "kZstd", "kSnappy"}
    /\ DOMAIN ChunkType = {"kFileSignature", "kPadding", "kSimple", "kTransposed"}
    /\ DistinctBytes(CompressionType)
    /\ DistinctBytes(ChunkType)
    /\ CompressionType.kNone = 0
    /\ ChunkType.kSimple = 114
    /\ ChunkType.kTransposed = 116

\* C10: the algorithm setters leave window_log unchanged, set_window_log
\* leaves the algorithm and the level unchanged, and a text of one algorithm
\* option and one window_log option parses to the same value in either order.
Swapped(t) == Join(<<Split(t)[2], Split(t)[1]>>)

AlgorithmAndWindowLog(t) ==
    /\ Len(Split(t)) = 2
    /\ Len(AlgorithmOptions(t)) = 1
    /\ Len(WindowLogOptions(t)) = 1
    /\ ValidText(t)

C10_IndependentFields ==
    /\ [][/\ op' \in AlgorithmSetters => window_log_' = window_log_
          /\ op' = "set_window_log" =>
                /\ compression_type_' = compression_type_
                /\ compression_level_' = compression_level_]_vars
    /\ []((op = "FromString" /\ AlgorithmAndWindowLog(text)) =>
            Outcome = FromString(DefaultOptions, Swapped(text)))

C10_Witness ==
    /\ op = "set_window_log" /\ ~failed
    /\ compression_type_ = "kZstd" /\ compression_level_ = 22
    /\ window_log_ = Some(31)
====
